---------------------------- MODULE Spec2Model ----------------------------
(* A state-machine model of SubjectiveCodexDataSource: the executable      *)
(* locator, the authenticator, the command builder, the invoker, the       *)
(* event-stream parser and the result normalizer of _process_message.      *)
EXTENDS Integers, Sequences, FiniteSets, TLC

(***************************************************************************)
(* Values                                                                  *)
(***************************************************************************)

\* Python's None, where a string may stand as well.
NoneVal == "<None>"

\* The OPENAI_API_KEY entry of os.environ when the variable is not set.
Unset == "<unset>"

\* A credential that os.environ refuses (an embedded NUL byte: ValueError).
BadKey == "sk-<NUL>"

\* Python truthiness of a configured string value.
Truthy(v) == v # "" /\ v # NoneVal

\* os.environ.__setitem__ raises for a value the process environment cannot hold.
EnvAccepts(v) == v # BadKey /\ v # NoneVal

Adapters == {1, 2}

AuthMethods == {"api_key", "oauth"}
ApiKeys == {"", "sk-1", BadKey}
Timeouts == {5, 300}
ExistingDirs == {"/work"}
WorkingDirectories == {"/work", "/missing", "", NoneVal}

\* What a caller may pass: a string, a dict with a content entry, a dict without.
Arguments ==
    { [kind |-> "str", value |-> "hi"],
      [kind |-> "dict", content |-> "fix it"],
      [kind |-> "dict", repr |-> "{'x': 1}"] }

LoginTimeout == 120

\* How long a subprocess runs before it exits, in seconds.
RunTimes == {1, 200}
ReturnCodes == {0, 1, 2}
Stderrs == {"", "bad sandbox flag"}

(***************************************************************************)
(* Executable locator: _find_codex_cli                                     *)
(***************************************************************************)

\* The path shutil.which("codex") returns when codex is on the search path.
WhichPath == "/opt/codex/bin/codex"

common_paths ==
    << "~/.local/bin/codex",
       "~/bin/codex",
       "/usr/local/bin/codex",
       "C:\\Program Files\\codex\\codex.exe",
       "~\\AppData\\Local\\Programs\\codex\\codex.exe" >>

AllPaths == {WhichPath} \cup {common_paths[i] : i \in 1..Len(common_paths)}

\* shutil.which("codex") on a filesystem holding the files fs.
Which(fs) == IF WhichPath \in fs THEN WhichPath ELSE NoneVal

\* The for loop over common_paths from index i: the first path that is a file.
RECURSIVE FirstCommonPath(_, _)
FirstCommonPath(fs, i) ==
    IF i > Len(common_paths) THEN NoneVal
    ELSE IF common_paths[i] \in fs THEN common_paths[i]
    ELSE FirstCommonPath(fs, i + 1)

\* Mutant: the cached path is not consulted.
FindCodexCliMissesCache(cached, fs) ==
    IF Which(fs) # NoneVal THEN Which(fs) ELSE FirstCommonPath(fs, 1)

\* The value _find_codex_cli returns; it is also what self._codex_path holds
\* afterwards (a hit is stored, a miss leaves the cache None).
FindCodexCli(cached, fs) ==
    IF cached # NoneVal THEN cached
    ELSE IF Which(fs) # NoneVal THEN Which(fs)
    ELSE FirstCommonPath(fs, 1)

\* The lookups one call of _find_codex_cli makes from index i of common_paths
\* on: os.path.isfile on each path up to and including the first file.
RECURSIVE IsfileLookups(_, _)
IsfileLookups(fs, i) ==
    IF i > Len(common_paths) THEN <<>>
    ELSE IF common_paths[i] \in fs THEN <<common_paths[i]>>
    ELSE <<common_paths[i]>> \o IsfileLookups(fs, i + 1)

\* The lookups one call of _find_codex_cli makes, in order: none on a cached
\* path (line 49), else shutil.which (line 52), then the loop of line 66.
Lookups(cached, fs) ==
    IF cached # NoneVal THEN <<>>
    ELSE IF Which(fs) # NoneVal THEN <<"which codex">>
    ELSE <<"which codex">> \o IsfileLookups(fs, 1)

(***************************************************************************)
(* Command builder: _build_command                                         *)
(***************************************************************************)

\* Mutant: --search is appended before --full-auto.
BuildCommandSearchFirst(c, codex_path, message) ==
    <<codex_path, "exec", "--json">>
        \o (IF Truthy(c.model) THEN <<"--model", c.model>> ELSE <<>>)
        \o (IF Truthy(c.sandbox_mode) THEN <<"--sandbox", c.sandbox_mode>> ELSE <<>>)
        \o (IF c.enable_search THEN <<"--search">> ELSE <<>>)
        \o (IF c.full_auto THEN <<"--full-auto">> ELSE <<>>)
        \o (IF Truthy(c.working_directory) THEN <<"--cd", c.working_directory>> ELSE <<>>)
        \o <<message>>

BuildCommand(c, codex_path, message) ==
    <<codex_path, "exec", "--json">>
        \o (IF Truthy(c.model) THEN <<"--model", c.model>> ELSE <<>>)
        \o (IF Truthy(c.sandbox_mode) THEN <<"--sandbox", c.sandbox_mode>> ELSE <<>>)
        \o (IF c.full_auto THEN <<"--full-auto">> ELSE <<>>)
        \o (IF c.enable_search THEN <<"--search">> ELSE <<>>)
        \o (IF Truthy(c.working_directory) THEN <<"--cd", c.working_directory>> ELSE <<>>)
        \o <<message>>

(***************************************************************************)
(* Event-stream parser: _parse_json_output                                 *)
(***************************************************************************)

\* Decoded JSON values, tagged by their Python type.
JNull == [k |-> "null"]
JNum(n) == [k |-> "num", n |-> n]
JStr(s) == [k |-> "str", s |-> s]
JArr(items) == [k |-> "arr", items |-> items]
JObj(fields) == [k |-> "obj", fields |-> fields]

TextItem(t) == JObj([type |-> JStr("text"), text |-> JStr(t)])
AssistantMessage(content) ==
    JObj([type |-> JStr("message"), role |-> JStr("assistant"), content |-> content])

HelloLine ==
    "{\"type\":\"message\",\"role\":\"assistant\",\"content\":[{\"type\":\"text\",\"text\":\"Hello\"}]}"
ABLine ==
    "{\"type\":\"message\",\"role\":\"assistant\",\"content\":[{\"type\":\"text\",\"text\":\"A\"},{\"type\":\"text\",\"text\":\"B\"}]}"
UserLine ==
    "{\"type\":\"message\",\"role\":\"user\",\"content\":[{\"type\":\"text\",\"text\":\"U\"}]}"
NoTextLine ==
    "{\"type\":\"message\",\"role\":\"assistant\",\"content\":[{\"type\":\"text\"},{\"type\":\"image\",\"text\":\"I\"}]}"
NoContentLine == "{\"type\":\"message\",\"role\":\"assistant\"}"
NullContentLine == "{\"type\":\"message\",\"role\":\"assistant\",\"content\":null}"
StrContentLine == "{\"type\":\"message\",\"role\":\"assistant\",\"content\":\"ab\"}"
NumItemLine == "{\"type\":\"message\",\"role\":\"assistant\",\"content\":[3]}"
NullTextLine ==
    "{\"type\":\"message\",\"role\":\"assistant\",\"content\":[{\"type\":\"text\",\"text\":null}]}"
OtherLine == "{\"type\":\"turn.completed\"}"

\* The lines json.loads decodes, with the value it returns for each.
JsonTable ==
    { <<HelloLine, AssistantMessage(JArr(<<TextItem("Hello")>>))>>,
      <<ABLine, AssistantMessage(JArr(<<TextItem("A"), TextItem("B")>>))>>,
      <<UserLine, JObj([type |-> JStr("message"), role |-> JStr("user"),
                        content |-> JArr(<<TextItem("U")>>)])>>,
      <<NoTextLine, AssistantMessage(JArr(<<JObj([type |-> JStr("text")]),
                        JObj([type |-> JStr("image"), text |-> JStr("I")])>>))>>,
      <<NoContentLine, JObj([type |-> JStr("message"), role |-> JStr("assistant")])>>,
      <<NullContentLine, AssistantMessage(JNull)>>,
      <<StrContentLine, AssistantMessage(JStr("ab"))>>,
      <<NumItemLine, AssistantMessage(JArr(<<JNum(3)>>))>>,
      <<NullTextLine, AssistantMessage(JArr(<<JObj([type |-> JStr("text"), text |-> JNull])>>))>>,
      <<OtherLine, JObj([type |-> JStr("turn.completed")])>>,
      <<"42", JNum(42)>>,
      <<"\"done\"", JStr("done")>>,
      <<"null", JNull>>,
      <<"[1]", JArr(<<JNum(1)>>)>> }

JsonLines == {e[1] : e \in JsonTable}

\* Lines json.loads rejects with JSONDecodeError.
MalformedLines == {"not-json", "  ", "{\"type\":"}

\* json.loads(line): the decoded value, or a JSONDecodeError.
JsonLoads(line) ==
    IF line \in JsonLines
    THEN [ok |-> TRUE, value |-> (CHOOSE e \in JsonTable : e[1] = line)[2]]
    ELSE [ok |-> FALSE]

\* dict.get on a decoded object.
Get(obj, key, default) ==
    IF key \in DOMAIN obj.fields THEN obj.fields[key] ELSE default

AttributeError(k) ==
    "'" \o k \o "' object has no attribute 'get'"

\* One pass of `for item in content` over the items from index i, adding to
\* the text: the text, or the fault the loop body raises.
RECURSIVE ScanItems(_, _, _)
ScanItems(items, i, text) ==
    IF i > Len(items) THEN [ok |-> TRUE, text |-> text]
    ELSE LET item == items[i] IN
         IF item.k # "obj" THEN [ok |-> FALSE, error |-> AttributeError(item.k)]
         ELSE IF Get(item, "type", JNull) # JStr("text")
              THEN ScanItems(items, i + 1, text)
         ELSE LET t == Get(item, "text", JStr("")) IN
              IF t.k # "str"
              THEN [ok |-> FALSE, error |-> "can only concatenate str (not \"" \o t.k \o "\") to str"]
              ELSE ScanItems(items, i + 1, text \o t.s)

\* What iterating a decoded value yields: a list its items, a string its
\* characters, a dict its keys; anything else is not iterable.
Characters(s) ==
    IF s = "" THEN <<>> ELSE IF s = "ab" THEN <<JStr("a"), JStr("b")>> ELSE <<JStr(s)>>

\* Mutant: the role of a message is not looked at.
ExtractTextAnyRole(event, text) ==
    IF event.k # "obj" THEN [ok |-> FALSE, error |-> AttributeError(event.k)]
    ELSE IF Get(event, "type", JNull) # JStr("message")
         THEN [ok |-> TRUE, text |-> text]
    ELSE LET content == Get(event, "content", JArr(<<>>)) IN
         CASE content.k = "arr" -> ScanItems(content.items, 1, text)
           [] content.k = "str" -> ScanItems(Characters(content.s), 1, text)
           [] content.k = "obj" -> [ok |-> FALSE, error |-> AttributeError("str")]
           [] OTHER -> [ok |-> FALSE, error |-> "'" \o content.k \o "' object is not iterable"]

\* Lines 183-188: the text of one decoded event added to the text so far.
ExtractText(event, text) ==
    IF event.k # "obj" THEN [ok |-> FALSE, error |-> AttributeError(event.k)]
    ELSE IF ~(Get(event, "type", JNull) = JStr("message")
              /\ Get(event, "role", JNull) = JStr("assistant"))
         THEN [ok |-> TRUE, text |-> text]
    ELSE LET content == Get(event, "content", JArr(<<>>)) IN
         CASE content.k = "arr" -> ScanItems(content.items, 1, text)
           [] content.k = "str" -> ScanItems(Characters(content.s), 1, text)
           [] content.k = "obj" -> [ok |-> FALSE, error |-> AttributeError("str")]
           [] OTHER -> [ok |-> FALSE, error |-> "'" \o content.k \o "' object is not iterable"]

\* output.strip().split("\n") on an output given as its lines: leading and
\* trailing blank lines go, and an empty output leaves the one empty line.
RECURSIVE StripLeft(_)
StripLeft(lines) ==
    IF lines # <<>> /\ Head(lines) \in {"", "  "} THEN StripLeft(Tail(lines)) ELSE lines

RECURSIVE StripRight(_)
StripRight(lines) ==
    IF lines # <<>> /\ lines[Len(lines)] \in {"", "  "}
    THEN StripRight(SubSeq(lines, 1, Len(lines) - 1))
    ELSE lines

StripSplit(lines) ==
    LET s == StripRight(StripLeft(lines)) IN IF s = <<>> THEN <<"">> ELSE s

\* Mutant: a malformed line ends the loop (break for continue).
RECURSIVE ParseLinesStopAtMalformed(_, _, _, _)
ParseLinesStopAtMalformed(lines, i, events, text) ==
    IF i > Len(lines) THEN [ok |-> TRUE, events |-> events, assistant_message |-> text]
    ELSE IF lines[i] = "" THEN ParseLinesStopAtMalformed(lines, i + 1, events, text)
    ELSE LET d == JsonLoads(lines[i]) IN
         IF ~d.ok THEN [ok |-> TRUE, events |-> events, assistant_message |-> text]
         ELSE LET x == ExtractText(d.value, text) IN
              IF ~x.ok THEN [ok |-> FALSE, error |-> x.error]
              ELSE ParseLinesStopAtMalformed(lines, i + 1, Append(events, d.value), x.text)

\* The for loop of _parse_json_output from line i on.
RECURSIVE ParseLines(_, _, _, _)
ParseLines(lines, i, events, text) ==
    IF i > Len(lines) THEN [ok |-> TRUE, events |-> events, assistant_message |-> text]
    ELSE IF lines[i] = "" THEN ParseLines(lines, i + 1, events, text)
    ELSE LET d == JsonLoads(lines[i]) IN
         IF ~d.ok THEN ParseLines(lines, i + 1, events, text)
         ELSE LET x == ExtractText(d.value, text) IN
              IF ~x.ok THEN [ok |-> FALSE, error |-> x.error]
              ELSE ParseLines(lines, i + 1, Append(events, d.value), x.text)

ParseJsonOutput(output) == ParseLines(StripSplit(output), 1, <<>>, "")

(***************************************************************************)
(* Result normalizer: the dicts _process_message returns                   *)
(***************************************************************************)

AuthenticationError(message) ==
    [error |-> TRUE, error_type |-> "authentication_error",
     message |-> "Failed to authenticate with Codex CLI. Please check your credentials.",
     original_message |-> message]

\* Mutant: the dict of a failed exec carries no return_code.
ExecutionErrorNoCode(returncode, stderr, message) ==
    [error |-> TRUE, error_type |-> "execution_error",
     message |-> IF stderr # "" THEN stderr ELSE "Codex execution failed",
     original_message |-> message]

ExecutionError(returncode, stderr, message) ==
    [error |-> TRUE, error_type |-> "execution_error",
     message |-> IF stderr # "" THEN stderr ELSE "Codex execution failed",
     return_code |-> returncode,
     original_message |-> message]

\* Mutant: the success dict echoes the reply where the prompt belongs.
SuccessEchoesResponse(parsed, message) ==
    [success |-> TRUE, response |-> parsed.assistant_message,
     events |-> parsed.events, original_message |-> parsed.assistant_message]

Success(parsed, message) ==
    [success |-> TRUE, response |-> parsed.assistant_message,
     events |-> parsed.events, original_message |-> message]

TimeoutError(timeout, message) ==
    [error |-> TRUE, error_type |-> "timeout",
     message |-> "Codex execution timed out after " \o ToString(timeout) \o " seconds",
     original_message |-> message]

ExceptionError(e, message) ==
    [error |-> TRUE, error_type |-> "exception", message |-> e,
     original_message |-> message]

\* No dict: the call has not returned.
NoResult == [pending |-> TRUE]

(***************************************************************************)
(* State                                                                   *)
(***************************************************************************)

VARIABLES
    live,           \* the adapters constructed in this host process
    config,         \* per adapter: the fields __init__ reads from params
    authenticated,  \* per adapter: self._authenticated
    codex_path,     \* per adapter: self._codex_path
    environ,        \* os.environ["OPENAI_API_KEY"] of the host process
    call            \* per adapter: the frame of its _process_message call

vars == <<live, config, authenticated, codex_path, environ, call>>

\* The filesystems a lookup may meet: the codex executables that exist when
\* it looks. Executables come and go between lookups.
\* Here codex is installed on the search path, at ~/bin or at /usr/local/bin.
Filesystems == SUBSET {WhichPath, common_paths[2], common_paths[3]}

\* No subprocess.run has ended in this call.
NoRun == [kind |-> "none"]

\* subprocess.run ended on the run `run` of the subprocess.
Ran(run) == [kind |-> "ran"] @@ run

\* subprocess.run raised a fault that is not TimeoutExpired.
Faulted == [kind |-> "error"]

\* The frame of an adapter that is not inside _process_message: besides the
\* locals of the call (message, cmd, result) it records what happened in it
\* (the steps taken, the subprocesses started and how they ended, and the
\* adapter's state when the call began).
IdleFrame ==
    [pc |-> "Idle", arg |-> NoneVal, message |-> NoneVal, auth_ret |-> "pending",
     cmd |-> <<>>, proc |-> <<>>, stdout |-> <<>>, result |-> NoResult,
     steps |-> <<>>, logins |-> 0, execs |-> 0, results |-> 0,
     located |-> "n/a", login_run |-> NoRun, exec_run |-> NoRun,
     environ0 |-> Unset, authenticated0 |-> FALSE, codex_path0 |-> NoneVal]

\* __init__ with the defaults of lines 29-40 except for the fields given.
DefaultConfig ==
    [auth_method |-> "api_key", api_key |-> "", model |-> "o4-mini",
     sandbox_mode |-> "read-only", working_directory |-> "/work",
     timeout |-> 300, full_auto |-> FALSE, enable_search |-> FALSE]

Configs ==
    {[DefaultConfig EXCEPT !.auth_method = m, !.api_key = k,
                           !.working_directory = w, !.timeout = t] :
        m \in AuthMethods, k \in ApiKeys, w \in WorkingDirectories, t \in Timeouts}

\* What the exec subprocess may write on stdout, as lines.
ExecStdouts ==
    { <<>>,
      <<HelloLine, "not-json">>,
      <<ABLine, "", HelloLine>>,
      <<OtherLine, UserLine, NoTextLine>>,
      <<HelloLine, "42">>,
      <<NullContentLine>> }

\* A run of the exec subprocess left to itself.
ExecRuns ==
    [runtime : RunTimes, returncode : ReturnCodes, stdout : ExecStdouts, stderr : Stderrs]

\* A run of the login subprocess left to itself.
LoginRuns == [runtime : RunTimes, returncode : ReturnCodes]

\* str(e) of the faults subprocess.run raises besides TimeoutExpired: the
\* executable cannot be started, the output is not valid text.
RunErrors ==
    { "[Errno 2] No such file or directory: 'codex'",
      "'utf-8' codec can't decode byte 0xff in position 0: invalid start byte" }

Init ==
    /\ live = {1}
    /\ config \in [Adapters -> Configs]
    /\ \A a \in Adapters \ live : config[a] = DefaultConfig
    /\ authenticated = [a \in Adapters |-> FALSE]
    /\ codex_path = [a \in Adapters |-> NoneVal]
    /\ environ \in {Unset, "sk-host"}
    /\ call = [a \in Adapters |-> IdleFrame]

(***************************************************************************)
(* _process_message, step by step                                          *)
(***************************************************************************)

\* Lines 211-213: the message as the string the pipeline works on.
CoerceMessage(arg) ==
    IF arg.kind = "str" THEN arg.value
    ELSE IF "content" \in DOMAIN arg THEN arg.content
    ELSE arg.repr

\* The frame when the call returns the dict r.
Returned(f, r) ==
    [f EXCEPT !.pc = "Done", !.result = r, !.results = f.results + 1]

\* Mutant: the flag is never consulted, every call authenticates afresh.
NeverShortCircuits(flag) == FALSE

\* Mutant: _ensure_authenticated answers True without looking at anything.
AlwaysShortCircuits(flag) == TRUE

\* Line 75: the flag short-circuits _ensure_authenticated.
AlreadyAuthenticated(flag) == flag

\* Mutant: the result of the locator is not checked.
NeverNotFound(path) == FALSE

\* Line 79: the locator found nothing.
NotFound(path) == path = NoneVal

\* Mutant: the credential is not checked for emptiness.
ApiKeyModeOnly(c) == c.auth_method = "api_key"

\* Line 83: pre-shared-key mode with a credential to use.
ApiKeyAuth(c) == c.auth_method = "api_key" /\ Truthy(c.api_key)

\* Mutant: the credential is not exported.
ExportedKeyKeepsAmbient(c, ambient) == ambient

\* Line 85: the value os.environ["OPENAI_API_KEY"] holds after the assignment.
ExportedKey(c, ambient) == c.api_key

\* Mutant: the oauth branch is never taken.
OauthAuthIgnored(c) == FALSE

\* Line 90: interactive-login mode.
OauthAuth(c) == c.auth_method = "oauth"

\* Mutant: the exit code of the login is not checked.
LoginSucceededAnyExit(run) == run.runtime <= LoginTimeout

\* Lines 106-113, 128: the login ran to its end within the 120 s deadline
\* and exited with code zero.
LoginSucceeded(run) == run.runtime <= LoginTimeout /\ run.returncode = 0

\* Entry into _process_message (lines 200-213).
ProcessMessage(a, arg) ==
    /\ call[a].pc = "Idle"
    /\ call' = [call EXCEPT ![a] =
                  [IdleFrame EXCEPT !.pc = "Authenticating", !.arg = arg,
                                    !.message = CoerceMessage(arg),
                                    !.steps = <<"Authenticating">>,
                                    !.environ0 = environ,
                                    !.authenticated0 = authenticated[a],
                                    !.codex_path0 = codex_path[a]]]
    /\ UNCHANGED <<live, config, authenticated, codex_path, environ>>

\* _ensure_authenticated (lines 73-95) up to its return or, in oauth mode,
\* up to the subprocess.run of _trigger_oauth_login (lines 97-111); a False
\* makes _process_message return at lines 216-222.
EnsureAuthenticated(a, fs) ==
    LET f0 == call[a]
        c == config[a]
        path == FindCodexCli(codex_path[a], fs)
        f == IF AlreadyAuthenticated(authenticated[a]) THEN f0
             ELSE [f0 EXCEPT !.located = path]
        failed == Returned([f EXCEPT !.auth_ret = "False"], AuthenticationError(f.message))
    IN
    /\ f0.pc = "Authenticating"
    /\ IF AlreadyAuthenticated(authenticated[a])
       THEN /\ call' = [call EXCEPT ![a] = [f EXCEPT !.pc = "Building", !.auth_ret = "True",
                                                     !.steps = Append(f.steps, "Building")]]
            /\ UNCHANGED <<authenticated, codex_path, environ>>
       ELSE /\ codex_path' = [codex_path EXCEPT ![a] = path]
            /\ IF NotFound(path)
               THEN /\ call' = [call EXCEPT ![a] = failed]
                    /\ UNCHANGED <<authenticated, environ>>
               ELSE IF ApiKeyAuth(c)
               THEN IF EnvAccepts(c.api_key)
                    THEN /\ environ' = ExportedKey(c, environ)
                         /\ authenticated' = [authenticated EXCEPT ![a] = TRUE]
                         /\ call' = [call EXCEPT ![a] =
                                       [f EXCEPT !.pc = "Building", !.auth_ret = "True",
                                                 !.steps = Append(f.steps, "Building")]]
                    ELSE /\ call' = [call EXCEPT ![a] = [f EXCEPT !.pc = "Raised"]]
                         /\ UNCHANGED <<authenticated, environ>>
               ELSE IF OauthAuth(c)
               THEN /\ call' = [call EXCEPT ![a] =
                                  [f EXCEPT !.pc = "Login", !.logins = f.logins + 1]]
                    /\ UNCHANGED <<authenticated, environ>>
               ELSE /\ call' = [call EXCEPT ![a] = failed]
                    /\ UNCHANGED <<authenticated, environ>>
    /\ UNCHANGED <<live, config>>

\* The login subprocess ran to its end, or to the 120 s deadline (lines
\* 106-130); _ensure_authenticated returns what _trigger_oauth_login returns.
TriggerOauthLoginRun(a, run) ==
    LET f == [call[a] EXCEPT !.login_run = Ran(run)] IN
    /\ f.pc = "Login"
    /\ IF LoginSucceeded(run)
       THEN /\ authenticated' = [authenticated EXCEPT ![a] = TRUE]
            /\ call' = [call EXCEPT ![a] = [f EXCEPT !.pc = "Building", !.auth_ret = "True",
                                                     !.steps = Append(f.steps, "Building")]]
       ELSE /\ call' = [call EXCEPT ![a] =
                          Returned([f EXCEPT !.auth_ret = "False"], AuthenticationError(f.message))]
            /\ UNCHANGED authenticated
    /\ UNCHANGED <<live, config, codex_path, environ>>

\* subprocess.run of the login raised something else (lines 131-133).
TriggerOauthLoginError(a) ==
    LET f == [call[a] EXCEPT !.login_run = Faulted] IN
    /\ f.pc = "Login"
    /\ call' = [call EXCEPT ![a] =
                  Returned([f EXCEPT !.auth_ret = "False"], AuthenticationError(f.message))]
    /\ UNCHANGED <<live, config, authenticated, codex_path, environ>>

\* cmd = self._build_command(message) (lines 226, 135-169).
Build(a, fs) ==
    LET f == call[a]
        path == FindCodexCli(codex_path[a], fs)
    IN
    /\ f.pc = "Building"
    /\ codex_path' = [codex_path EXCEPT ![a] = path]
    /\ call' = [call EXCEPT ![a] =
         IF path = NoneVal
         THEN Returned(f, ExceptionError("Codex CLI not found", f.message))
         ELSE [f EXCEPT !.pc = "Invoking", !.cmd = BuildCommand(config[a], path, f.message),
                        !.steps = Append(f.steps, "Invoking")]]
    /\ UNCHANGED <<live, config, authenticated, environ>>

\* Mutant: the exec subprocess gets the copy of os.environ without overlay.
ExecEnvNoOverlay(c, ambient) == ambient

\* Mutant: the overlay is written whatever the authentication mode.
ExecEnvAnyMode(c, ambient) ==
    IF Truthy(c.api_key) THEN c.api_key ELSE ambient

\* Lines 230-232: the copy of os.environ the exec subprocess gets.
ExecEnv(c, ambient) ==
    IF c.auth_method = "api_key" /\ Truthy(c.api_key) THEN c.api_key ELSE ambient

\* Line 241: the cwd argument; os.path.isdir(None) is a TypeError.
ExecCwd(c) ==
    IF c.working_directory \in ExistingDirs THEN c.working_directory ELSE NoneVal

\* Lines 229-242 up to the start of the exec subprocess.
Invoke(a) ==
    LET f == call[a]
        c == config[a]
    IN
    /\ f.pc = "Invoking"
    /\ call' = [call EXCEPT ![a] =
         IF c.working_directory = NoneVal
         THEN Returned(f, ExceptionError(
                "stat: path should be string, bytes, os.PathLike or integer, not NoneType",
                f.message))
         ELSE [f EXCEPT !.pc = "Running", !.execs = f.execs + 1,
                        !.proc = [argv |-> f.cmd, env |-> ExecEnv(c, environ),
                                  cwd |-> ExecCwd(c), timeout |-> c.timeout]]]
    /\ UNCHANGED <<live, config, authenticated, codex_path, environ>>

\* Mutant: an overdue exec is started again.
ExecOutcomeRetriesTimeout(f, c, run) ==
    IF run.runtime > c.timeout
    THEN [f EXCEPT !.pc = "Invoking"]
    ELSE IF run.returncode # 0
    THEN Returned(f, ExecutionError(run.returncode, run.stderr, f.message))
    ELSE [f EXCEPT !.pc = "Parsing", !.stdout = run.stdout,
                   !.steps = Append(f.steps, "Parsing")]

\* Mutant: the exit code is looked at before the deadline.
ExecOutcomeExitFirst(f, c, run) ==
    IF run.returncode # 0
    THEN Returned(f, ExecutionError(run.returncode, run.stderr, f.message))
    ELSE IF run.runtime > c.timeout
    THEN Returned(f, TimeoutError(c.timeout, f.message))
    ELSE [f EXCEPT !.pc = "Parsing", !.stdout = run.stdout,
                   !.steps = Append(f.steps, "Parsing")]

\* Mutant: a non-zero exit with a zero-like code 2 is taken for a success.
ExecOutcomeOnlyCodeOne(f, c, run) ==
    IF run.runtime > c.timeout
    THEN Returned(f, TimeoutError(c.timeout, f.message))
    ELSE IF run.returncode = 1
    THEN Returned(f, ExecutionError(run.returncode, run.stderr, f.message))
    ELSE [f EXCEPT !.pc = "Parsing", !.stdout = run.stdout,
                   !.steps = Append(f.steps, "Parsing")]

\* What _process_message does with a finished or overdue exec subprocess
\* (lines 235-252, 264-271).
ExecOutcome(f, c, run) ==
    IF run.runtime > c.timeout
    THEN Returned(f, TimeoutError(c.timeout, f.message))
    ELSE IF run.returncode # 0
    THEN Returned(f, ExecutionError(run.returncode, run.stderr, f.message))
    ELSE [f EXCEPT !.pc = "Parsing", !.stdout = run.stdout,
                   !.steps = Append(f.steps, "Parsing")]

ExecRun(a, run) ==
    /\ call[a].pc = "Running"
    /\ call' = [call EXCEPT ![a] =
                  ExecOutcome([call[a] EXCEPT !.exec_run =
                                 Ran([runtime |-> run.runtime, returncode |-> run.returncode,
                                      stderr |-> run.stderr])],
                              config[a], run)]
    /\ UNCHANGED <<live, config, authenticated, codex_path, environ>>

\* subprocess.run of the exec raised something else (lines 272-279).
ExecError(a, e) ==
    /\ call[a].pc = "Running"
    /\ call' = [call EXCEPT ![a] =
                  Returned([call[a] EXCEPT !.exec_run = Faulted],
                           ExceptionError(e, call[a].message))]
    /\ UNCHANGED <<live, config, authenticated, codex_path, environ>>

\* Lines 254-262, and 272-279 when the parser raises.
ParseOutcome(f) ==
    LET parsed == ParseJsonOutput(f.stdout) IN
    IF parsed.ok THEN Returned(f, Success(parsed, f.message))
    ELSE Returned(f, ExceptionError(parsed.error, f.message))

Parse(a) ==
    /\ call[a].pc = "Parsing"
    /\ call' = [call EXCEPT ![a] = ParseOutcome(call[a])]
    /\ UNCHANGED <<live, config, authenticated, codex_path, environ>>

\* The caller has the dict, or the fault; the adapter is ready for a new call.
Return(a) ==
    /\ call[a].pc \in {"Done", "Raised"}
    /\ call' = [call EXCEPT ![a] = IdleFrame]
    /\ UNCHANGED <<live, config, authenticated, codex_path, environ>>

Next ==
    \/ \E a \in live, arg \in Arguments : ProcessMessage(a, arg)
    \/ \E a \in live, fs \in Filesystems : EnsureAuthenticated(a, fs)
    \/ \E a \in live, run \in LoginRuns : TriggerOauthLoginRun(a, run)
    \/ \E a \in live : TriggerOauthLoginError(a)
    \/ \E a \in live, fs \in Filesystems : Build(a, fs)
    \/ \E a \in live : Invoke(a)
    \/ \E a \in live, run \in ExecRuns : ExecRun(a, run)
    \/ \E a \in live, e \in RunErrors : ExecError(a, e)
    \/ \E a \in live : Parse(a)
    \/ \E a \in live : Return(a)

Spec == Init /\ [][Next]_vars

(***************************************************************************)
(* _build_command called on its own, over every configuration of its flags *)
(***************************************************************************)

Models == {"", "o4-mini"}
SandboxModes == {"", "read-only", "workspace-write"}
BuildPrompts == {"hi", "", "--search"}

BuildConfigs ==
    {[DefaultConfig EXCEPT !.model = m, !.sandbox_mode = s, !.full_auto = fa,
                           !.enable_search = es, !.working_directory = w] :
        m \in Models, s \in SandboxModes, fa \in BOOLEAN, es \in BOOLEAN,
        w \in WorkingDirectories}

InitBuild ==
    /\ live = {1}
    /\ config \in [Adapters -> BuildConfigs]
    /\ \A a \in Adapters \ live : config[a] = DefaultConfig
    /\ authenticated = [a \in Adapters |-> FALSE]
    /\ codex_path = [a \in Adapters |-> NoneVal]
    /\ environ = Unset
    /\ call = [a \in Adapters |-> IdleFrame]

\* self._build_command(message) (lines 135-169): the command, or the
\* RuntimeError of line 139.
BuildCommandCall(a, fs, message) ==
    LET path == FindCodexCli(codex_path[a], fs) IN
    /\ codex_path' = [codex_path EXCEPT ![a] = path]
    /\ call' = [call EXCEPT ![a] =
         IF path = NoneVal
         THEN [IdleFrame EXCEPT !.pc = "Raised", !.message = message]
         ELSE [IdleFrame EXCEPT !.pc = "Built", !.message = message,
                                !.cmd = BuildCommand(config[a], path, message)]]
    /\ UNCHANGED <<live, config, authenticated, environ>>

NextBuild ==
    \E a \in live, fs \in Filesystems, message \in BuildPrompts :
        BuildCommandCall(a, fs, message)

SpecBuild == InitBuild /\ [][NextBuild]_vars

(***************************************************************************)
(* _parse_json_output called on its own, over every short output           *)
(***************************************************************************)

\* The most lines of an output.
MaxLines == 3

\* The lines an output is made of: blank, malformed, decodable.
OutputLines == {""} \cup MalformedLines \cup JsonLines

Outputs == UNION {[1..n -> OutputLines] : n \in 0..MaxLines}

InitParse ==
    /\ live = {1}
    /\ config = [a \in Adapters |-> DefaultConfig]
    /\ authenticated = [a \in Adapters |-> FALSE]
    /\ codex_path = [a \in Adapters |-> NoneVal]
    /\ environ = Unset
    /\ \E output \in Outputs :
         call = [a \in Adapters |->
                   IF a \in live THEN [IdleFrame EXCEPT !.stdout = output] ELSE IdleFrame]

\* self._parse_json_output(output) (lines 171-198) on the output at hand:
\* the dict it returns, or the fault that leaves it.
ParseJsonOutputCall(a) ==
    LET output == call[a].stdout
        parsed == ParseJsonOutput(output)
    IN
    /\ call[a].pc = "Idle"
    /\ call' = [call EXCEPT ![a] =
         IF parsed.ok
         THEN [IdleFrame EXCEPT !.pc = "Parsed", !.stdout = output,
                                !.result = [events |-> parsed.events,
                                            assistant_message |-> parsed.assistant_message,
                                            raw_output |-> output]]
         ELSE [IdleFrame EXCEPT !.pc = "Raised", !.stdout = output]]
    /\ UNCHANGED <<live, config, authenticated, codex_path, environ>>

NextParse == \E a \in live : ParseJsonOutputCall(a)

SpecParse == InitParse /\ [][NextParse]_vars

(***************************************************************************)
(* _find_codex_cli called again and again while the filesystem changes     *)
(***************************************************************************)

MaxLocates == 3

\* Every combination of the six places being a file or not.
LocateFilesystems == SUBSET AllPaths

\* The record of one locate: the filesystem it ran on, the cache it found,
\* the lookups it made and what it returned.
LocateFrame ==
    [pc |-> "Idle", fs |-> {}, codex_path0 |-> NoneVal, lookups |-> <<>>,
     located |-> "n/a", locates |-> 0]

InitLocate ==
    /\ live = {1}
    /\ config = [a \in Adapters |-> DefaultConfig]
    /\ authenticated = [a \in Adapters |-> FALSE]
    /\ codex_path = [a \in Adapters |-> NoneVal]
    /\ environ = Unset
    /\ call = [a \in Adapters |-> LocateFrame]

\* self._find_codex_cli() (lines 46-71) on the filesystem fs.
FindCodexCliCall(a, fs) ==
    LET path == FindCodexCli(codex_path[a], fs) IN
    /\ call[a].locates < MaxLocates
    /\ codex_path' = [codex_path EXCEPT ![a] = path]
    /\ call' = [call EXCEPT ![a] =
         [pc |-> "Located", fs |-> fs, codex_path0 |-> codex_path[a],
          lookups |-> Lookups(codex_path[a], fs), located |-> path,
          locates |-> call[a].locates + 1]]
    /\ UNCHANGED <<live, config, authenticated, environ>>

NextLocate ==
    \E a \in live, fs \in LocateFilesystems : FindCodexCliCall(a, fs)

SpecLocate == InitLocate /\ [][NextLocate]_vars

(***************************************************************************)
(* Two api_key adapters in one host process, their calls interleaved       *)
(***************************************************************************)

SharedKeys == {"sk-1", "sk-2"}

SharedConfigs == {[DefaultConfig EXCEPT !.api_key = k] : k \in SharedKeys}

SharedArguments == {[kind |-> "str", value |-> "hi"]}

SharedExecRuns ==
    [runtime : {1}, returncode : {0, 1}, stdout : {<<HelloLine>>}, stderr : {""}]

\* Two adapters constructed with different credentials; os.environ is the
\* one environment of the process they share.
InitShared ==
    /\ live = Adapters
    /\ config \in [Adapters -> SharedConfigs]
    /\ \A a, b \in Adapters : a # b => config[a].api_key # config[b].api_key
    /\ authenticated = [a \in Adapters |-> FALSE]
    /\ codex_path = [a \in Adapters |-> NoneVal]
    /\ environ \in {Unset, "sk-host"}
    /\ call = [a \in Adapters |-> IdleFrame]

\* The steps of _process_message an api_key adapter can take (lines 83-88
\* return before the login of line 91), any adapter moving next.
NextShared ==
    \/ \E a \in live, arg \in SharedArguments : ProcessMessage(a, arg)
    \/ \E a \in live, fs \in Filesystems : EnsureAuthenticated(a, fs)
    \/ \E a \in live, fs \in Filesystems : Build(a, fs)
    \/ \E a \in live : Invoke(a)
    \/ \E a \in live, run \in SharedExecRuns : ExecRun(a, run)
    \/ \E a \in live, e \in RunErrors : ExecError(a, e)
    \/ \E a \in live : Parse(a)
    \/ \E a \in live : Return(a)

SpecShared == InitShared /\ [][NextShared]_vars

(***************************************************************************)
(* Properties                                                              *)
(***************************************************************************)

ErrorKinds == {"authentication_error", "execution_error", "timeout", "exception"}

\* The error_type of a returned dict, "none" when it has none.
ErrorTypeOf(r) == IF "error_type" \in DOMAIN r THEN r.error_type ELSE "none"

\* C1: every _process_message call ends by returning a dict, never by a
\* fault that escapes to the caller, and every dict that is not a success
\* carries exactly one of the four error kinds.
C1_AlwaysReturnsTaggedResult ==
    \A a \in live :
        /\ call[a].pc # "Raised"
        /\ call[a].pc = "Done" =>
             \/ "success" \in DOMAIN call[a].result
             \/ /\ "error_type" \in DOMAIN call[a].result
                /\ call[a].result.error_type \in ErrorKinds

\* C2: a returned dict is either a Success (response, events,
\* original_message, none of error_type, message, return_code) or an Error
\* (error_type, message, original_message, none of response, events), and
\* return_code is there exactly when error_type is execution_error.
C2_ResultShape ==
    \A a \in live :
        call[a].pc = "Done" =>
            LET r == call[a].result
                keys == DOMAIN r
                success == /\ {"response", "events", "original_message"} \subseteq keys
                           /\ keys \cap {"error_type", "message", "return_code"} = {}
                error == /\ {"error_type", "message", "original_message"} \subseteq keys
                         /\ keys \cap {"response", "events"} = {}
                         /\ ("return_code" \in keys) <=> (r.error_type = "execution_error")
            IN (success \/ error) /\ ~(success /\ error)

\* C2 witness: a call has returned the dict of a failed exec, with its return_code.
C2_Witness ==
    \E a \in live :
        /\ call[a].pc = "Done"
        /\ "return_code" \in DOMAIN call[a].result
        /\ ErrorTypeOf(call[a].result) = "execution_error"

\* C3: the steps of a call come in the order Authenticating, Building,
\* Invoking, Parsing; the exec subprocess is started only after
\* _ensure_authenticated returned True in the same call; a False ends the
\* call with authentication_error, no command built and no exec started;
\* and a call ends in one terminal state with exactly one result.
C3_OrderedStepsOneResult ==
    \A a \in live :
        LET f == call[a]
            order == <<"Authenticating", "Building", "Invoking", "Parsing">>
        IN
        /\ Len(f.steps) <= Len(order)
        /\ f.steps = SubSeq(order, 1, Len(f.steps))
        /\ f.execs > 0 => f.auth_ret = "True"
        /\ f.auth_ret = "False" =>
             /\ f.pc = "Done"
             /\ ErrorTypeOf(f.result) = "authentication_error"
             /\ f.cmd = <<>>
             /\ f.execs = 0
        /\ f.pc \notin {"Idle", "Authenticating", "Login", "Building", "Invoking",
                        "Running", "Parsing"} =>
             /\ f.pc = "Done"
             /\ f.results = 1
             /\ f.result # NoResult
        /\ f.pc # "Done" => f.results = 0 /\ f.result = NoResult

C5_AuthenticatedMonotonic ==
    /\ \A a \in Adapters : ~authenticated[a]
    /\ [][\A a \in live :
            /\ authenticated[a] => authenticated'[a]
            /\ (~authenticated[a] /\ authenticated'[a]) =>
                 \/ /\ call[a].pc = "Authenticating"
                    /\ config[a].auth_method = "api_key" /\ config[a].api_key # ""
                    /\ call'[a].located # NoneVal
                    /\ environ' = config[a].api_key
                 \/ /\ call[a].pc = "Login"
                    /\ call'[a].login_run.kind = "ran"
                    /\ call'[a].login_run.returncode = 0
                    /\ call'[a].login_run.runtime <= LoginTimeout
            /\ (authenticated[a] /\ call[a].pc = "Authenticating"
                    /\ call'[a].pc # "Authenticating") =>
                 /\ call'[a].auth_ret = "True"
                 /\ call'[a].pc = "Building"
                 /\ call'[a].located = "n/a"
                 /\ call'[a].logins = 0
                 /\ environ' = environ
                 /\ codex_path' = codex_path
         ]_vars

\* C5 witness: an oauth adapter whose login succeeded in an earlier call is
\* past _ensure_authenticated in a later one.
C5_Witness ==
    \E a \in live :
        /\ config[a].auth_method = "oauth"
        /\ call[a].authenticated0 /\ authenticated[a]
        /\ call[a].auth_ret = "True"
        /\ call[a].logins = 0

\* C6: in api_key mode with an empty credential _ensure_authenticated
\* returns False (it does not raise), the flag stays False, OPENAI_API_KEY
\* is left as it was and no subprocess is started.
C6_EmptyKeyFails ==
    \A a \in live :
        (config[a].auth_method = "api_key" /\ config[a].api_key = "") =>
            /\ ~authenticated[a]
            /\ call[a].pc \in {"Idle", "Authenticating", "Done"}
            /\ call[a].pc = "Done" =>
                 /\ call[a].auth_ret = "False"
                 /\ ErrorTypeOf(call[a].result) = "authentication_error"
            /\ call[a].logins = 0 /\ call[a].execs = 0
            /\ call[a].pc # "Idle" => environ = call[a].environ0

\* C6 witness: the executable was located and _ensure_authenticated still
\* returned False for the empty credential.
C6_Witness ==
    \E a \in live :
        /\ config[a].auth_method = "api_key" /\ config[a].api_key = ""
        /\ call[a].located \notin {"n/a", NoneVal}
        /\ call[a].auth_ret = "False"

\* C7: when the locator finds the executable nowhere, _ensure_authenticated
\* returns False in either mode, no login and no exec subprocess is
\* started, and the flag, the cache and the environment stay as they were.
C7_MissingExecutable ==
    \A a \in live :
        call[a].located = NoneVal =>
            /\ call[a].pc = "Done"
            /\ call[a].auth_ret = "False"
            /\ ErrorTypeOf(call[a].result) = "authentication_error"
            /\ call[a].logins = 0 /\ call[a].execs = 0
            /\ ~authenticated[a] /\ ~call[a].authenticated0
            /\ codex_path[a] = NoneVal
            /\ environ = call[a].environ0

\* C7 witness: the lookup of an api_key adapter with a usable credential
\* found nothing.
C7_Witness ==
    \E a \in live :
        /\ call[a].located = NoneVal
        /\ config[a].auth_method = "api_key" /\ config[a].api_key = "sk-1"
        /\ call[a].auth_ret = "False"

\* C8: in oauth mode _ensure_authenticated returns True, with the flag set,
\* exactly when the login subprocess exited with code zero within its
\* deadline; a non-zero exit, a timeout and any other fault of the run each
\* give False with the flag left False, and nothing is raised.
C8_LoginOutcome ==
    \A a \in live :
        LET f == call[a]
            exited0 == /\ f.login_run.kind = "ran"
                       /\ f.login_run.runtime <= LoginTimeout
                       /\ f.login_run.returncode = 0
        IN
        /\ config[a].auth_method = "oauth" => f.pc # "Raised"
        /\ f.login_run.kind # "none" =>
            /\ config[a].auth_method = "oauth"
            /\ f.auth_ret = IF exited0 THEN "True" ELSE "False"
            /\ authenticated[a] <=> exited0
            /\ ~exited0 => f.pc = "Done" /\ ErrorTypeOf(f.result) = "authentication_error"

\* C8 witness: a login that exited with a non-zero code in time.
C8_Witness ==
    \E a \in live :
        /\ call[a].login_run.kind = "ran"
        /\ call[a].login_run.runtime <= LoginTimeout
        /\ call[a].login_run.returncode # 0
        /\ call[a].auth_ret = "False"

\* C9: when the exec subprocess would run longer than the configured
\* deadline, the call returns error_type timeout with the deadline in the
\* message, whatever exit code the subprocess would have given.
C9_DeadlineGivesTimeout ==
    \A a \in live :
        LET f == call[a] IN
        (f.exec_run.kind = "ran" /\ f.exec_run.runtime > config[a].timeout) =>
            /\ f.pc = "Done"
            /\ ErrorTypeOf(f.result) = "timeout"
            /\ config[a].timeout = 5 =>
                 f.result.message = "Codex execution timed out after 5 seconds"
            /\ config[a].timeout = 300 =>
                 f.result.message = "Codex execution timed out after 300 seconds"

\* C9 witness: an overdue exec subprocess that would have exited non-zero.
C9_Witness ==
    \E a \in live :
        /\ call[a].exec_run.kind = "ran"
        /\ call[a].exec_run.runtime > config[a].timeout
        /\ call[a].exec_run.returncode # 0
        /\ call[a].pc = "Done"

\* C10: an exec subprocess that ends in time with exit code c # 0 and
\* stderr s gives execution_error with return_code c and message s, or the
\* fallback literal when s is empty, and its stdout is not parsed; an
\* execution_error comes from no other run.
C10_NonZeroExit ==
    \A a \in live :
        LET f == call[a]
            failed == /\ f.exec_run.kind = "ran"
                      /\ f.exec_run.runtime <= config[a].timeout
                      /\ f.exec_run.returncode # 0
        IN
        /\ failed =>
             /\ f.pc = "Done"
             /\ ErrorTypeOf(f.result) = "execution_error"
             /\ f.result.return_code = f.exec_run.returncode
             /\ f.result.message =
                  IF f.exec_run.stderr = "" THEN "Codex execution failed"
                  ELSE f.exec_run.stderr
             /\ f.steps = <<"Authenticating", "Building", "Invoking">>
        /\ (f.pc = "Done"
               /\ ErrorTypeOf(f.result) = "execution_error") => failed

\* C10 witness: exit code 1 with stderr "bad sandbox flag".
C10_Witness ==
    \E a \in live :
        /\ call[a].exec_run.kind = "ran"
        /\ call[a].exec_run.returncode = 1
        /\ call[a].exec_run.stderr = "bad sandbox flag"
        /\ call[a].pc = "Done"
        /\ call[a].result.message = "bad sandbox flag"

\* C11: a built command is the executable, exec, --json, then the flags of
\* the non-empty or enabled settings only, each followed by its value, in
\* the order --model, --sandbox, --full-auto, --search, --cd, then the
\* prompt as the last element.
C11_CommandLayout ==
    \A a \in live :
        call[a].pc = "Built" =>
            LET cmd == call[a].cmd
                c == config[a]
                flags == SubSeq(cmd, 4, Len(cmd) - 1)
                Has(x) == \E i \in 1..Len(flags) : flags[i] = x
                At(x) == CHOOSE i \in 1..Len(flags) : flags[i] = x
                Count(x) == Cardinality({i \in 1..Len(flags) : flags[i] = x})
                Valued(x, v) == Has(x) /\ At(x) < Len(flags) /\ flags[At(x) + 1] = v
                Before(x, y) == (Has(x) /\ Has(y)) => At(x) < At(y)
                width == (IF c.model \in {"", NoneVal} THEN 0 ELSE 2)
                         + (IF c.sandbox_mode \in {"", NoneVal} THEN 0 ELSE 2)
                         + (IF c.full_auto THEN 1 ELSE 0)
                         + (IF c.enable_search THEN 1 ELSE 0)
                         + (IF c.working_directory \in {"", NoneVal} THEN 0 ELSE 2)
            IN
            /\ Len(cmd) >= 4
            /\ cmd[1] = codex_path[a] /\ cmd[1] # NoneVal
            /\ cmd[2] = "exec" /\ cmd[3] = "--json"
            /\ cmd[Len(cmd)] = call[a].message
            /\ Len(flags) = width
            /\ \A x \in {"--model", "--sandbox", "--full-auto", "--search", "--cd"} :
                 Count(x) <= 1
            /\ IF c.model \in {"", NoneVal} THEN ~Has("--model")
               ELSE Valued("--model", c.model)
            /\ IF c.sandbox_mode \in {"", NoneVal} THEN ~Has("--sandbox")
               ELSE Valued("--sandbox", c.sandbox_mode)
            /\ Has("--full-auto") <=> c.full_auto
            /\ Has("--search") <=> c.enable_search
            /\ IF c.working_directory \in {"", NoneVal} THEN ~Has("--cd")
               ELSE Valued("--cd", c.working_directory)
            /\ Before("--model", "--sandbox") /\ Before("--sandbox", "--full-auto")
            /\ Before("--full-auto", "--search") /\ Before("--search", "--cd")
            /\ Before("--model", "--full-auto") /\ Before("--model", "--search")
            /\ Before("--model", "--cd") /\ Before("--sandbox", "--search")
            /\ Before("--sandbox", "--cd") /\ Before("--full-auto", "--cd")

\* C11 witness: every optional flag is present and the prompt reads like a flag.
C11_Witness ==
    \E a \in live :
        /\ call[a].pc = "Built"
        /\ Len(call[a].cmd) = 12
        /\ call[a].message = "--search"

\* C12: _parse_json_output returns a dict for every output, whatever its
\* lines decode to, and every decoded value is among the events.
C12_ParseNeverFails ==
    \A a \in live :
        /\ call[a].pc # "Raised"
        /\ call[a].pc = "Parsed" =>
             \A i \in 1..Len(call[a].stdout) :
                 call[a].stdout[i] \in JsonLines =>
                     \E j \in 1..Len(call[a].result.events) :
                         <<call[a].stdout[i], call[a].result.events[j]>> \in JsonTable

\* The decodable lines that are event objects of the expected shape: a
\* message, if it has a content, has a list of objects whose text is a string.
WellFormedLines == {HelloLine, ABLine, UserLine, NoTextLine, NoContentLine, OtherLine}

\* C13: on an output whose lines are blank, malformed or well-formed event
\* objects, the events are the decoded values of the decodable lines, in
\* the order of the lines; blank and malformed lines add nothing and stop
\* nothing.
C13_EventsAreDecodableLines ==
    \A a \in live :
        LET out == call[a].stdout
            Decodable(line) == line \in JsonLines
            kept == SelectSeq(out, Decodable)
        IN
        (call[a].pc \in {"Parsed", "Raised"}
            /\ \A i \in 1..Len(out) : out[i] \in {""} \cup MalformedLines \cup WellFormedLines)
        => /\ call[a].pc = "Parsed"
           /\ Len(call[a].result.events) = Len(kept)
           /\ \A i \in 1..Len(kept) : <<kept[i], call[a].result.events[i]>> \in JsonTable
           /\ call[a].result.raw_output = out

\* C13 witness: the assistant message Hello followed by the line not-json:
\* one event, the text Hello.
C13_Witness ==
    \E a \in live :
        /\ call[a].pc = "Parsed"
        /\ call[a].stdout = <<HelloLine, "not-json">>
        /\ Len(call[a].result.events) = 1
        /\ call[a].result.assistant_message = "Hello"

\* C14: the text _parse_json_output returns is the texts of the text items
\* of the assistant messages, joined in the order of arrival with nothing
\* in between; other events and other items add nothing, a text item
\* without a text adds the empty string.
C14_AssistantTextConcatenated ==
    \A a \in live :
        call[a].pc = "Parsed" =>
            LET out == call[a].stdout
                said == [line \in OutputLines |->
                           CASE line = HelloLine -> "Hello"
                             [] line = ABLine -> "AB"
                             [] OTHER -> ""]
                joined[i \in 0..Len(out)] ==
                    IF i = 0 THEN "" ELSE joined[i - 1] \o said[out[i]]
            IN call[a].result.assistant_message = joined[Len(out)]

\* C14 witness: the items A and B of one message, then Hello of the next.
C14_Witness ==
    \E a \in live :
        /\ call[a].pc = "Parsed"
        /\ call[a].stdout = <<ABLine, UserLine, HelloLine>>
        /\ call[a].result.assistant_message = "ABHello"

\* C15: one call starts the login subprocess at most once and the exec
\* subprocess at most once; once a subprocess.run has ended in a timeout, a
\* non-zero exit or a fault, the call returns its error and starts nothing
\* more.
C15_NoRetries ==
    \A a \in live :
        LET f == call[a]
            login_failed == /\ f.login_run.kind # "none"
                            /\ ~(/\ f.login_run.kind = "ran"
                                 /\ f.login_run.runtime <= LoginTimeout
                                 /\ f.login_run.returncode = 0)
            exec_failed == /\ f.exec_run.kind # "none"
                           /\ ~(/\ f.exec_run.kind = "ran"
                                /\ f.exec_run.runtime <= config[a].timeout
                                /\ f.exec_run.returncode = 0)
        IN
        /\ f.logins <= 1 /\ f.execs <= 1
        /\ f.login_run.kind # "none" => f.logins = 1
        /\ f.exec_run.kind # "none" => f.execs = 1
        /\ login_failed =>
             f.pc = "Done" /\ "error_type" \in DOMAIN f.result /\ f.execs = 0
        /\ exec_failed =>
             f.pc = "Done" /\ "error_type" \in DOMAIN f.result

\* C15 witness: a call whose login succeeded and whose exec ran past the deadline.
C15_Witness ==
    \E a \in live :
        /\ call[a].pc = "Done"
        /\ call[a].logins = 1 /\ call[a].execs = 1
        /\ ErrorTypeOf(call[a].result) = "timeout"

\* C16: os.environ changes only in the step in which an api_key adapter
\* authenticates, and then to its credential; starting the exec subprocess
\* leaves it as it is; in oauth mode the credential reaches neither
\* os.environ nor the environment handed to the exec subprocess, which is
\* the ambient one.
C16_EnvironmentWrites ==
    /\ [][environ' # environ =>
            \E a \in live :
                /\ call[a].pc = "Authenticating" /\ call'[a].pc = "Building"
                /\ config[a].auth_method = "api_key" /\ config[a].api_key # ""
                /\ ~authenticated[a] /\ authenticated'[a]
                /\ environ' = config[a].api_key
       ]_vars
    /\ [](\A a \in live :
            config[a].auth_method = "oauth" =>
                /\ environ \notin ApiKeys \ {""}
                /\ call[a].pc # "Idle" => environ = call[a].environ0
                /\ call[a].execs = 1 =>
                     /\ call[a].proc.env = environ
                     /\ call[a].proc.env \notin ApiKeys \ {""})

\* C16 witness: an oauth adapter configured with a credential has started
\* the exec subprocess; the host's own variable is what the subprocess got.
C16_Witness ==
    \E a \in live :
        /\ config[a].auth_method = "oauth" /\ config[a].api_key = "sk-1"
        /\ call[a].pc = "Running"
        /\ call[a].proc.env = "sk-host" /\ environ = "sk-host"

\* C17: every dict _process_message returns, success or error, carries in
\* original_message the prompt of the call as it was passed: the string
\* itself, the content of a dict, the str() of a dict without content.
C17_OriginalMessageEchoed ==
    \A a \in live :
        call[a].pc = "Done" =>
            LET arg == call[a].arg
                r == call[a].result
            IN
            /\ "original_message" \in DOMAIN r
            /\ arg = [kind |-> "str", value |-> "hi"] => r.original_message = "hi"
            /\ arg = [kind |-> "dict", content |-> "fix it"] => r.original_message = "fix it"
            /\ arg = [kind |-> "dict", repr |-> "{'x': 1}"] => r.original_message = "{'x': 1}"
            /\ arg \in Arguments

\* C17 witness: a success for the prompt "fix it" whose reply is another text.
C17_Witness ==
    \E a \in live :
        /\ call[a].pc = "Done"
        /\ "success" \in DOMAIN call[a].result
        /\ call[a].result.response = "Hello"
        /\ call[a].result.original_message = "fix it"

\* C18: the exec subprocess gets the configured working directory as cwd if
\* and only if it is an existing directory; for every other configured
\* value the exec is still started, with no cwd (the caller's directory).
C18_CwdIffExistingDirectory ==
    \A a \in live :
        LET f == call[a]
            wd == config[a].working_directory
            built == \E i \in 1..Len(f.steps) : f.steps[i] = "Invoking"
        IN
        /\ f.execs = 1 =>
              /\ wd \in ExistingDirs => f.proc.cwd = wd
              /\ wd \notin ExistingDirs => f.proc.cwd = NoneVal
        /\ built /\ f.pc # "Invoking" => f.execs = 1

\* C19: a locate returns the cached path if there is one, making no lookup;
\* else the search-path hit; else the first candidate of the fixed list that
\* is a file, probing the list in order and no further than the hit; else
\* nothing. The cache is written only with the path just found, stays empty
\* on a miss, and once populated never changes.
C19_LocateOrderAndCache ==
    /\ [](\A a \in live :
            LET f == call[a]
                hits == {i \in 1..Len(common_paths) : common_paths[i] \in f.fs}
                first == CHOOSE i \in hits : \A j \in hits : i <= j
            IN
            f.pc = "Located" =>
                /\ IF f.codex_path0 # NoneVal
                   THEN f.located = f.codex_path0 /\ f.lookups = <<>>
                   ELSE IF WhichPath \in f.fs
                   THEN f.located = WhichPath /\ f.lookups = <<"which codex">>
                   ELSE IF hits # {}
                   THEN /\ f.located = common_paths[first]
                        /\ f.lookups = <<"which codex">> \o SubSeq(common_paths, 1, first)
                   ELSE /\ f.located = NoneVal
                        /\ f.lookups = <<"which codex">> \o common_paths
                /\ codex_path[a] = f.located)
    /\ [][\A a \in live :
            /\ codex_path[a] # NoneVal => codex_path'[a] = codex_path[a]
            /\ codex_path'[a] # codex_path[a] =>
                   codex_path'[a] = call'[a].located /\ codex_path'[a] \in call'[a].fs
       ]_vars

\* C19 witness: a third locate on an empty filesystem returns the candidate
\* cached by the second, the first having found nothing.
C19_Witness ==
    \E a \in live :
        /\ call[a].pc = "Located" /\ call[a].locates = 3
        /\ call[a].fs = {}
        /\ call[a].codex_path0 = common_paths[3]
        /\ call[a].located = common_paths[3]
        /\ call[a].lookups = <<>>

C21_OnlySuccessMemoized ==
    /\ [](\A a \in live :
            LET f == call[a] IN
            config[a].auth_method = "oauth" =>
                /\ f.logins <= 1
                /\ f.authenticated0 => f.logins = 0
                /\ (~f.authenticated0 /\ f.codex_path0 # NoneVal
                        /\ f.pc \notin {"Idle", "Authenticating"}) => f.logins = 1
                /\ (f.logins = 1 /\ f.auth_ret = "False") =>
                        ~authenticated[a] /\ codex_path[a] # NoneVal)
    /\ [][\A a \in live :
            config[a].auth_method = "oauth" =>
                /\ authenticated[a] => authenticated'[a]
                /\ (~authenticated[a] /\ authenticated'[a]) =>
                      /\ call[a].pc = "Login"
                      /\ call'[a].login_run.kind = "ran"
                      /\ call'[a].login_run.returncode = 0
                      /\ call'[a].login_run.runtime <= LoginTimeout
                /\ (call[a].pc = "Login" /\ call'[a].pc = "Done") =>
                      /\ ~authenticated'[a]
                      /\ codex_path'[a] = codex_path[a] /\ codex_path'[a] # NoneVal
       ]_vars

\* C21 witness: a call that started after a failed login (path cached, flag
\* False) started the login again, and this time it exited with code zero.
C21_Witness ==
    \E a \in live :
        /\ config[a].auth_method = "oauth"
        /\ ~call[a].authenticated0 /\ call[a].codex_path0 # NoneVal
        /\ call[a].logins = 1
        /\ call[a].login_run.kind = "ran" /\ call[a].login_run.returncode = 0
        /\ authenticated[a]

\* C22: with two api_key adapters of different credentials in one process,
\* calls interleaved step by step, the environment an adapter's exec
\* subprocess is given carries that adapter's own credential, whatever
\* os.environ holds at that moment.
C22_ExecCarriesOwnCredential ==
    \A a \in live :
        call[a].execs = 1 =>
            /\ call[a].proc.env = config[a].api_key
            /\ \A b \in live \ {a} : call[a].proc.env # config[b].api_key

\* C22 witness: an adapter's exec is running with its own credential while
\* os.environ holds the credential the other adapter wrote after it.
C22_Witness ==
    \E a, b \in live :
        /\ a # b
        /\ call[a].pc = "Running"
        /\ call[a].proc.env = config[a].api_key
        /\ authenticated[b] /\ ~call[a].authenticated0
        /\ environ = config[b].api_key
=============================================================================
